---- MODULE Spec2Model ----
(***************************************************************************)
(* Cache-aside consistency layer of the blog API: the CacheManager         *)
(* (app/cache.py), the article and comment services                        *)
(* (app/services/*.py), the get_db transaction boundary (app/database.py)  *)
(* and the per-request query counter (app/middleware.py).                  *)
(*                                                                         *)
(* Every request is a task that advances one await at a time: pc[r] is the *)
(* await the task is suspended at.  Spec runs the requests one after the   *)
(* other; SpecConc lets the tasks of several requests interleave.          *)
(***************************************************************************)
EXTENDS Integers, Sequences, FiniteSets, TLC

\* ---------------------------------------------------------------- bounds
MaxId       == 2    \* article ids handed out by the autoincrement column
MaxViews    == 2    \* view_count values explored
MaxComments == 1    \* comments per article explored
MaxAccess   == 2    \* cache.get calls explored (hits + misses)
MaxPage     == 2    \* page numbers requested
MaxTasks    == 2    \* tasks that may be in flight together under SpecConc
MaxGets     == 3    \* cache.get calls made on the CacheManager under SpecCache
MaxNow      == 1    \* seconds the clock advances under SpecSlug

\* ------------------------------------------------------ program constants
CACHE_TTL_LIST   == 60
CACHE_TTL_DETAIL == 300

Ids    == 1..MaxId
Reqs   == 1..MaxTasks

\* Python's None (absent row, absent dict, unset field).
None == [none |-> TRUE]

\* The last step was not a direct call of a CacheManager method.
NoCall == [name |-> "none"]

\* ------------------------------------------------------------ cache keys
\* A string is a sequence of symbols: a decimal digit, the delimiter ":",
\* the glob star "*", or a word without delimiter.
Digits == <<"0", "1", "2", "3", "4", "5", "6", "7", "8", "9">>

RECURSIVE Str(_)
Str(n) ==
    IF n < 10 THEN <<Digits[n + 1]>>
    ELSE Str(n \div 10) \o <<Digits[(n % 10) + 1]>>

ListKey(page, page_size, sort_by, sort_order) ==
    <<"articles", ":", "list", ":">> \o Str(page) \o <<":">> \o Str(page_size)
        \o <<":">> \o sort_by \o <<":">> \o sort_order

DetailKey(article_id) ==
    <<"articles", ":", "detail", ":">> \o Str(article_id)

\* Variant: the pattern covers the first page only.
ListPatternFirstPage == <<"articles", ":", "list", ":", "1", ":", "*">>

ListPattern == <<"articles", ":", "list", ":", "*">>

\* Redis glob matching (SCAN MATCH): "*" matches any run of symbols, every
\* other symbol matches itself.
\* Variant: every key matches (the whole database is flushed).
GlobMatchEverything(pattern, key) == TRUE

RECURSIVE GlobMatch(_, _)
GlobMatch(pattern, key) ==
    IF pattern = <<>> THEN key = <<>>
    ELSE IF Head(pattern) = "*"
         THEN \/ GlobMatch(Tail(pattern), key)
              \/ key # <<>> /\ GlobMatch(pattern, Tail(key))
         ELSE /\ key # <<>>
              /\ Head(key) = Head(pattern)
              /\ GlobMatch(Tail(pattern), Tail(key))


\* --------------------------------------------------------- serialisation
\* json.dumps(value, default=str) / json.loads: the payload kept by the
\* store is text, not the value.
JsonDumps(value) == [json |-> value]
JsonLoads(data)  == data.json

\* A payload json.loads raises on (text another client left under the key).
Garbage == [garbage |-> TRUE]
Decodable(data) == "json" \in DOMAIN data

\* A value json.dumps(value, default=str) raises on (a dict that holds
\* itself: ValueError, circular reference).
Circular == [circular |-> TRUE]
Serialisable(value) == value # Circular

\* `if cached:` -- None and the empty dict are falsy.
EmptyDict == [k \in {} |-> None]

\* Variant: a cached page without items counts as absent.
TruthyWithItems(v) ==
    /\ v # None
    /\ v # EmptyDict
    /\ "items" \in DOMAIN v => v.items # <<>>

Truthy(v) == v # None /\ v # EmptyDict

\* ----------------------------------------------------------------- state
VARIABLES
    db,         \* committed articles: id -> row, or None
    nextId,     \* next value of the articles.id autoincrement sequence
    store,      \* Redis contents: key -> [data, ex]
    redis,      \* CacheManager._redis: "none" or "client"
    storeUp,    \* the Redis server answers
    hits,       \* CacheManager._hits
    misses,     \* CacheManager._misses
    pc,         \* per task: the await it is suspended at
    op,         \* per task: the service function it runs
    arg,        \* per task: the call's arguments
    loc,        \* per task: the ORM object / intermediate result it holds
    ret,        \* per task: the service function's return value
    status,     \* per task: HTTP status decided by the router (0 = not yet)
    tx,         \* per task: the flushed, uncommitted write of its session
    qc,         \* per task: query_count_var in the task's context
    wasHit,     \* per task: its cache.get returned a value (history)
    cacheFault, \* per task: one of its store calls raised (history)
    pre,        \* per task: the store when the request came in (history)
    log,        \* per task: the awaits it has completed, in order (history)
    purged,     \* deletes that completed with a working cache (history)
    viewMisses, \* per id: completed get_article calls that missed (history)
    call,       \* the CacheManager call the last step made directly, or NoCall
    prev,       \* the last two requests answered, oldest first (history)
    stmts,      \* per task: statements its session has executed (history)
    users,      \* committed users: a set of [username, email]
    slugOf,     \* articles.slug of the rows created with a title: id -> slug
    now,        \* int(time.time())
    publishedAt \* articles.published_at of the rows where it is set: id -> time

reqVars   == <<pc, op, arg, loc, ret, status, tx, qc, stmts, wasHit, cacheFault,
               pre, log>>
cacheVars == <<store, redis, storeUp, hits, misses>>
sideVars  == <<users, slugOf, now, publishedAt>>
vars == <<db, nextId, store, redis, storeUp, hits, misses, pc, op, arg, loc,
          ret, status, tx, qc, stmts, wasHit, cacheFault, pre, log, purged,
          viewMisses, call, prev, users, slugOf, now, publishedAt>>

\* Inputs explored.
PageSizes  == {1}
SortBys    == {<<"created_at">>}
SortOrders == {<<"desc">>}
ListArgs ==
    [page : 1..MaxPage, page_size : PageSizes, sort_by : SortBys,
     sort_order : SortOrders]
CreateArgs == [is_published : BOOLEAN]
\* ArticleUpdate payloads (exclude_unset): the fields that were set.
UpdateData == {[is_published |-> b] : b \in BOOLEAN}

Init ==
    /\ db = [i \in Ids |-> None]
    /\ nextId = 1
    /\ store = [k \in {} |-> None]
    /\ redis = "none"
    /\ storeUp = TRUE
    /\ hits = 0
    /\ misses = 0
    /\ pc = [r \in Reqs |-> "idle"]
    /\ op = [r \in Reqs |-> "none"]
    /\ arg = [r \in Reqs |-> None]
    /\ loc = [r \in Reqs |-> None]
    /\ ret = [r \in Reqs |-> None]
    /\ status = [r \in Reqs |-> 0]
    /\ tx = [r \in Reqs |-> None]
    /\ qc = [r \in Reqs |-> 0]
    /\ wasHit = [r \in Reqs |-> FALSE]
    /\ cacheFault = [r \in Reqs |-> FALSE]
    /\ pre = [r \in Reqs |-> EmptyDict]
    /\ log = [r \in Reqs |-> <<>>]
    /\ purged = {}
    /\ viewMisses = [i \in Ids |-> 0]
    /\ call = NoCall
    /\ prev = <<>>
    /\ stmts = [r \in Reqs |-> 0]
    /\ users = {}
    /\ slugOf = [i \in {} |-> <<>>]
    /\ publishedAt = [i \in {} |-> 0]
    /\ now = 0

\* ---------------------------------------------------------- CacheManager
\* A store call is attempted only with a client, and raises when the server
\* does not answer.
StoreCallFails == redis = "client" /\ ~storeUp
StoreCallWorks == redis = "client" /\ storeUp

\* Variant: a payload json.loads raises on is handed back as it is.
CacheGetUndecoded(key) ==
    IF redis = "none" THEN None
    ELSE IF ~storeUp THEN None
    ELSE IF key \notin DOMAIN store THEN None
    ELSE IF Decodable(store[key].data) THEN JsonLoads(store[key].data)
    ELSE store[key].data

\* cache.get: the value returned (None on a miss or an error).
CacheGet(key) ==
    IF redis = "none" THEN None
    ELSE IF ~storeUp THEN None
    ELSE IF key \notin DOMAIN store THEN None
    ELSE IF Decodable(store[key].data) THEN JsonLoads(store[key].data)
    ELSE None

\* cache.get: whether the call counts as a hit.
CacheGetIsHit(key) == StoreCallWorks /\ key \in DOMAIN store

\* cache.get: what the call adds to _hits and to _misses.  The hit is
\* counted before json.loads; when that raises, the handler counts a miss.
GetHits(key) == IF CacheGetIsHit(key) THEN 1 ELSE 0
GetMisses(key) ==
    IF CacheGetIsHit(key) /\ Decodable(store[key].data) THEN 0 ELSE 1

\* Variant: a value json.dumps raises on is stored as its str().
CacheSetStringified(key, value, ttl) ==
    IF redis = "none" THEN store
    ELSE IF ~storeUp THEN store
    ELSE [k \in DOMAIN store \cup {key} |->
            IF k = key
            THEN [data |-> IF Serialisable(value) THEN JsonDumps(value) ELSE Garbage,
                  ex |-> ttl]
            ELSE store[k]]

\* cache.set: the store after the call.  json.dumps comes before the store
\* call, both inside the try.
CacheSet(key, value, ttl) ==
    IF redis = "none" THEN store
    ELSE IF ~Serialisable(value) THEN store
    ELSE IF ~storeUp THEN store
    ELSE [k \in DOMAIN store \cup {key} |->
            IF k = key THEN [data |-> JsonDumps(value), ex |-> ttl] ELSE store[k]]

\* Variant: the pattern is taken for a key (DEL pattern, no SCAN).
DeletePatternExactOnly(pattern) ==
    IF redis = "none" THEN store
    ELSE IF ~storeUp THEN store
    ELSE [k \in DOMAIN store \ {pattern} |-> store[k]]

\* cache.delete_pattern: the store after the call.
DeletePattern(pattern) ==
    IF redis = "none" THEN store
    ELSE IF ~storeUp THEN store
    ELSE LET keys == {k \in DOMAIN store : GlobMatch(pattern, k)}
         IN  [k \in DOMAIN store \ keys |-> store[k]]

\* ------------------------------------------------------------- database
Max(a, b) == IF a > b THEN a ELSE b
Min(a, b) == IF a < b THEN a ELSE b

\* Article(...) with the column defaults of the model: view_count 0.
NewRow(data) ==
    [is_published |-> data.is_published, view_count |-> 0, comments |-> 0]

\* The ORM object a SELECT ... WHERE id = :id loads (None without a row).
LoadArticle(id) ==
    IF db[id] = None THEN None
    ELSE [id |-> id, is_published |-> db[id].is_published,
          view_count |-> db[id].view_count, comments |-> db[id].comments]

\* _article_to_dict: the list view of an article (no content, no comments).
ArticleToDict(a) ==
    [id |-> a.id, view_count |-> a.view_count, is_published |-> a.is_published]

\* _article_detail_to_dict: the list view plus the comments.
ArticleDetailToDict(a) ==
    [id |-> a.id, view_count |-> a.view_count, is_published |-> a.is_published,
     comments |-> a.comments]

\* WHERE is_published IS TRUE.
PublishedIds == {i \in Ids : db[i] # None /\ db[i].is_published}

\* ORDER BY created_at: rows are created in id order.
RECURSIVE SortedAsc(_)
SortedAsc(S) ==
    IF S = {} THEN <<>>
    ELSE LET m == CHOOSE x \in S : \A y \in S : x <= y
         IN  <<m>> \o SortedAsc(S \ {m})

Reverse(q) == [i \in 1..Len(q) |-> q[Len(q) + 1 - i]]

\* The page SELECT: ORDER BY, OFFSET (page - 1) * page_size, LIMIT page_size.
PageRows(a) ==
    LET asc_  == SortedAsc(PublishedIds)
        rows  == IF a.sort_order = <<"desc">> THEN Reverse(asc_) ELSE asc_
        first == (a.page - 1) * a.page_size + 1
        last  == Min(Len(rows), a.page * a.page_size)
    IN  [i \in 1..Max(0, last - first + 1) |-> LoadArticle(rows[first + i - 1])]

\* Variant: the quotient is rounded down.
PagesFloor(total, page_size) == total \div page_size

\* math.ceil(total / page_size) if total > 0 else 0
Pages(total, page_size) ==
    IF total > 0 THEN (total + page_size - 1) \div page_size ELSE 0

PaginatedResponse(rows, total, a) ==
    [items |-> [i \in 1..Len(rows) |-> ArticleToDict(rows[i])],
     total |-> total, page |-> a.page, page_size |-> a.page_size,
     pages |-> Pages(total, a.page_size)]

\* Row lock taken by a flushed write of another session, released when that
\* session ends: UPDATE and DELETE exclude each other, an INSERT of a comment
\* (key-share lock through the foreign key) excludes a DELETE of the article.
LockedByOther(r, id, kind) ==
    \E s \in Reqs \ {r} :
        /\ tx[s] # None
        /\ tx[s].id = id
        /\ IF kind = "comment" THEN tx[s].kind = "delete"
           ELSE IF tx[s].kind = "comment" THEN kind = "delete"
           ELSE tx[s].kind \in {"update", "delete"}

\* The committed table after session.commit() of a session holding write w.
ApplyTx(w) ==
    IF w = None THEN db
    ELSE IF w.kind = "insert" THEN [db EXCEPT ![w.id] = w.row]
    ELSE IF w.kind = "delete" THEN [db EXCEPT ![w.id] = None]
    ELSE IF db[w.id] = None THEN db
    ELSE IF w.kind = "comment"
         THEN [db EXCEPT ![w.id].comments = @ + 1]
    ELSE [db EXCEPT ![w.id] =
            [f \in DOMAIN @ |-> IF f \in DOMAIN w.set THEN w.set[f] ELSE @[f]]]

\* Tasks in flight in function f on article id.
InFlight(f, id) ==
    Cardinality({s \in Reqs : pc[s] # "idle" /\ op[s] = f /\ arg[s].id = id})

\* ------------------------------------------------------- task bookkeeping
\* TimingMiddleware.__call__ resets query_count_var, then the router calls
\* the service function f with arguments a.
Enter(r, f, a) ==
    /\ pc[r] = "idle"
    /\ op' = [op EXCEPT ![r] = f]
    /\ arg' = [arg EXCEPT ![r] = a]
    /\ pre' = [pre EXCEPT ![r] = store]

\* The await the task completes in this step.
Here(r) == IF pc[r] = "idle" THEN "begin" ELSE pc[r]

\* The service function returns v and the router decides the status code;
\* get_db then commits, or rolls back when the router raised HTTPException.
Return(r, v, code) ==
    /\ ret' = [ret EXCEPT ![r] = v]
    /\ status' = [status EXCEPT ![r] = code]
    /\ pc' = [pc EXCEPT ![r] = IF code < 400 THEN "commit" ELSE "rollback"]
    /\ log' = [log EXCEPT ![r] = Append(@, Here(r))]

\* The task goes on to its next await.
Goto(r, label) ==
    /\ pc' = [pc EXCEPT ![r] = label]
    /\ log' = [log EXCEPT ![r] = Append(@, Here(r))]
    /\ UNCHANGED <<ret, status>>

\* increment_query_count(), called c times: one increment of the request's
\* counter per call.
IncrementQueryCount(q, c) == q + c

\* _count_query fires once for each of the n statements the engine executes;
\* the service calls increment_query_count() c times on the way.
CountQueries(r, n, c) ==
    /\ qc' = [qc EXCEPT ![r] = IncrementQueryCount(@ + n, c)]
    /\ stmts' = [stmts EXCEPT ![r] = @ + n]

\* query_count_var.set(0) of TimingMiddleware.__call__, then the statements
\* and calls up to the first await of the service function.
ResetAndCount(r, n, c) ==
    /\ qc' = [qc EXCEPT ![r] = IncrementQueryCount(0 + n, c)]
    /\ stmts' = [stmts EXCEPT ![r] = n]

\* Counters of cache.get, and the record of a store call that raised.
CountAccess(r, key) ==
    /\ hits' = hits + GetHits(key)
    /\ misses' = misses + GetMisses(key)
    /\ wasHit' = [wasHit EXCEPT ![r] = CacheGet(key) # None]
    /\ cacheFault' = [cacheFault EXCEPT ![r] = StoreCallFails]

NoteFault(r) == cacheFault' = [cacheFault EXCEPT ![r] = @ \/ StoreCallFails]

\* ---------------------------------------------------------- get_articles
\* Variant: the cached page is fetched and then ignored.
GetArticles_CacheGetIgnored(r, a) ==
    LET key == ListKey(a.page, a.page_size, a.sort_by, a.sort_order)
    IN  /\ Enter(r, "get_articles", a)
        /\ hits + misses < MaxAccess
        /\ CountAccess(r, key)
        /\ ResetAndCount(r, 0, 0)
        /\ Goto(r, "count")
        /\ UNCHANGED <<db, nextId, store, redis, storeUp, loc, tx, purged, viewMisses, call, prev, sideVars>>

GetArticles_CacheGet(r, a) ==
    LET key    == ListKey(a.page, a.page_size, a.sort_by, a.sort_order)
        cached == CacheGet(key)
    IN  /\ Enter(r, "get_articles", a)
        /\ hits + misses < MaxAccess
        /\ CountAccess(r, key)
        /\ ResetAndCount(r, 0, 0)
        /\ IF Truthy(cached)
           THEN Return(r, cached, 200)
           ELSE Goto(r, "count")
        /\ UNCHANGED <<db, nextId, store, redis, storeUp, loc, tx, purged, viewMisses, call, prev, sideVars>>

GetArticles_Count(r) ==
    /\ pc[r] = "count"
    /\ CountQueries(r, 1, 1)
    /\ loc' = [loc EXCEPT ![r] = [total |-> Cardinality(PublishedIds)]]
    /\ Goto(r, "select")
    /\ UNCHANGED pre
    /\ UNCHANGED <<db, nextId, cacheVars, op, arg, tx, wasHit, cacheFault, purged,
                   viewMisses, call, prev, sideVars>>

\* The page SELECT joins the author; the tags are loaded by one more
\* SELECT ... IN when the page has rows.
GetArticles_Select(r) ==
    LET rows == PageRows(arg[r])
    IN  /\ pc[r] = "select"
        /\ op[r] = "get_articles"
        /\ CountQueries(r, IF Len(rows) > 0 THEN 2 ELSE 1, 1)
        /\ loc' = [loc EXCEPT ![r] = PaginatedResponse(rows, loc[r].total, arg[r])]
        /\ Goto(r, "cache_set")
        /\ UNCHANGED pre
        /\ UNCHANGED <<db, nextId, cacheVars, op, arg, tx, wasHit, cacheFault,
                       purged, viewMisses, call, prev, sideVars>>

\* Variant: the page is stored with the detail TTL.
GetArticles_CacheSetDetailTtl(r) ==
    LET a   == arg[r]
        key == ListKey(a.page, a.page_size, a.sort_by, a.sort_order)
    IN  /\ pc[r] = "cache_set"
        /\ op[r] = "get_articles"
        /\ store' = CacheSet(key, loc[r], CACHE_TTL_DETAIL)
        /\ NoteFault(r)
        /\ Return(r, loc[r], 200)
        /\ UNCHANGED pre
        /\ UNCHANGED <<db, nextId, redis, storeUp, hits, misses, op, arg, loc, tx,
                       qc, stmts, wasHit, purged, viewMisses, call, prev, sideVars>>

GetArticles_CacheSet(r) ==
    LET a   == arg[r]
        key == ListKey(a.page, a.page_size, a.sort_by, a.sort_order)
    IN  /\ pc[r] = "cache_set"
        /\ op[r] = "get_articles"
        /\ store' = CacheSet(key, loc[r], CACHE_TTL_LIST)
        /\ NoteFault(r)
        /\ Return(r, loc[r], 200)
        /\ UNCHANGED pre
        /\ UNCHANGED <<db, nextId, redis, storeUp, hits, misses, op, arg, loc, tx,
                       qc, stmts, wasHit, purged, viewMisses, call, prev, sideVars>>

\* ----------------------------------------------------------- get_article
\* Variant: a hit counts a view too (UPDATE of view_count on the hit path).
GetArticle_CacheGetCountsHit(r, id) ==
    LET key    == DetailKey(id)
        cached == CacheGet(key)
    IN  /\ Enter(r, "get_article", [id |-> id])
        /\ hits + misses < MaxAccess
        /\ IF db[id] = None THEN TRUE
           ELSE db[id].view_count + InFlight("get_article", id) < MaxViews
        /\ CountAccess(r, key)
        /\ IF Truthy(cached)
           THEN /\ Return(r, cached, 200)
                /\ ResetAndCount(r, IF db[id] = None THEN 0 ELSE 1, 0)
                /\ tx' = [tx EXCEPT ![r] =
                            IF db[id] = None THEN None
                            ELSE [kind |-> "update", id |-> id,
                                  set |-> [view_count |-> db[id].view_count + 1]]]
           ELSE /\ Goto(r, "select")
                /\ ResetAndCount(r, 0, 0)
                /\ UNCHANGED tx
        /\ UNCHANGED <<db, nextId, store, redis, storeUp, loc, purged, viewMisses, call, prev, sideVars>>

GetArticle_CacheGet(r, id) ==
    LET key    == DetailKey(id)
        cached == CacheGet(key)
    IN  /\ Enter(r, "get_article", [id |-> id])
        /\ hits + misses < MaxAccess
        /\ IF Truthy(cached) \/ db[id] = None THEN TRUE
           ELSE db[id].view_count + InFlight("get_article", id) < MaxViews
        /\ CountAccess(r, key)
        /\ ResetAndCount(r, 0, 0)
        /\ IF Truthy(cached)
           THEN Return(r, cached, 200)
           ELSE Goto(r, "select")
        /\ UNCHANGED <<db, nextId, store, redis, storeUp, loc, tx, purged, viewMisses, call, prev, sideVars>>

GetArticle_Select(r) ==
    LET article == LoadArticle(arg[r].id)
    IN  /\ pc[r] = "select"
        /\ op[r] = "get_article"
        /\ CountQueries(r, IF article = None THEN 1 ELSE 3, 1)
        /\ loc' = [loc EXCEPT ![r] = article]
        /\ IF article = None
           THEN Return(r, None, 404)
           ELSE Goto(r, "flush")
        /\ UNCHANGED pre
        /\ UNCHANGED <<db, nextId, cacheVars, op, arg, tx, wasHit, cacheFault,
                       purged, viewMisses, call, prev, sideVars>>

\* Variant: the flush writes the count that was read.
GetArticle_FlushNoIncrement(r) ==
    LET id == arg[r].id
        v  == loc[r].view_count
    IN  /\ pc[r] = "flush"
        /\ op[r] = "get_article"
        /\ ~LockedByOther(r, id, "update")
        /\ CountQueries(r, 1, 1)
        /\ IF db[id] = None
           THEN /\ Return(r, None, 500)
                /\ UNCHANGED <<loc, tx>>
           ELSE /\ loc' = [loc EXCEPT ![r].view_count = v]
                /\ tx' = [tx EXCEPT ![r] =
                            [kind |-> "update", id |-> id, set |-> [view_count |-> v]]]
                /\ Goto(r, "cache_set")
        /\ UNCHANGED pre
        /\ UNCHANGED <<db, nextId, cacheVars, op, arg, wasHit, cacheFault, purged,
                       viewMisses, call, prev, sideVars>>

\* article.view_count += 1; await db.flush(): UPDATE articles SET
\* view_count = :v WHERE id = :id.  No row left to update: StaleDataError.
GetArticle_Flush(r) ==
    LET id == arg[r].id
        v  == loc[r].view_count + 1
    IN  /\ pc[r] = "flush"
        /\ op[r] = "get_article"
        /\ ~LockedByOther(r, id, "update")
        /\ CountQueries(r, 1, 1)
        /\ IF db[id] = None
           THEN /\ Return(r, None, 500)
                /\ UNCHANGED <<loc, tx>>
           ELSE /\ loc' = [loc EXCEPT ![r].view_count = v]
                /\ tx' = [tx EXCEPT ![r] =
                            [kind |-> "update", id |-> id, set |-> [view_count |-> v]]]
                /\ Goto(r, "cache_set")
        /\ UNCHANGED pre
        /\ UNCHANGED <<db, nextId, cacheVars, op, arg, wasHit, cacheFault, purged,
                       viewMisses, call, prev, sideVars>>

\* Variant: a store error in cache.set is raised to the request.
GetArticle_CacheSetRaises(r) ==
    LET data == ArticleDetailToDict(loc[r])
    IN  /\ pc[r] = "cache_set"
        /\ op[r] = "get_article"
        /\ store' = CacheSet(DetailKey(arg[r].id), data, CACHE_TTL_DETAIL)
        /\ NoteFault(r)
        /\ IF StoreCallFails THEN Return(r, None, 500) ELSE Return(r, data, 200)
        /\ UNCHANGED pre
        /\ UNCHANGED <<db, nextId, redis, storeUp, hits, misses, op, arg, loc, tx,
                       qc, stmts, wasHit, purged, viewMisses, call, prev, sideVars>>

GetArticle_CacheSet(r) ==
    LET data == ArticleDetailToDict(loc[r])
    IN  /\ pc[r] = "cache_set"
        /\ op[r] = "get_article"
        /\ store' = CacheSet(DetailKey(arg[r].id), data, CACHE_TTL_DETAIL)
        /\ NoteFault(r)
        /\ Return(r, data, 200)
        /\ UNCHANGED pre
        /\ UNCHANGED <<db, nextId, redis, storeUp, hits, misses, op, arg, loc, tx,
                       qc, stmts, wasHit, purged, viewMisses, call, prev, sideVars>>

\* -------------------------------------------------------- create_article
\* SELECT by slug, then the awaits of lines 265-267 in the next step.
CreateArticle_SlugCheck(r, data) ==
    /\ Enter(r, "create_article", data)
    /\ nextId + Cardinality({s \in Reqs : op[s] = "create_article" /\ tx[s] = None})
         <= MaxId
    /\ ResetAndCount(r, 1, 0)
    /\ Goto(r, "flush")
    /\ UNCHANGED <<db, nextId, cacheVars, loc, tx, wasHit, cacheFault, purged,
                   viewMisses, call, prev, sideVars>>

\* Variant: create_article returns without invalidating.
CreateArticle_FlushNoInvalidate(r) ==
    /\ pc[r] = "flush"
    /\ op[r] = "create_article"
    /\ nextId' = nextId + 1
    /\ tx' = [tx EXCEPT ![r] =
                [kind |-> "insert", id |-> nextId, row |-> NewRow(arg[r])]]
    /\ loc' = [loc EXCEPT ![r] =
                [id |-> nextId, is_published |-> arg[r].is_published,
                 view_count |-> 0, comments |-> 0]]
    /\ CountQueries(r, 4, 0)
    /\ Return(r, [id |-> nextId, view_count |-> 0,
                  is_published |-> arg[r].is_published, comments |-> 0], 201)
    /\ UNCHANGED pre
    /\ UNCHANGED <<db, cacheVars, op, arg, wasHit, cacheFault, purged, viewMisses,
                   call, prev, sideVars>>

\* db.add; flush (INSERT, the sequence hands out the id); refresh of the
\* three relationships.
CreateArticle_Flush(r) ==
    /\ pc[r] = "flush"
    /\ op[r] = "create_article"
    /\ nextId' = nextId + 1
    /\ tx' = [tx EXCEPT ![r] =
                [kind |-> "insert", id |-> nextId, row |-> NewRow(arg[r])]]
    /\ loc' = [loc EXCEPT ![r] =
                [id |-> nextId, is_published |-> arg[r].is_published,
                 view_count |-> 0, comments |-> 0]]
    /\ CountQueries(r, 4, 0)
    /\ Goto(r, "inval_list")
    /\ UNCHANGED pre
    /\ UNCHANGED <<db, cacheVars, op, arg, wasHit, cacheFault, purged, viewMisses, call, prev, sideVars>>

\* -------------------------------------------------------- update_article
UpdateArticle_Select(r, id, data) ==
    LET article == LoadArticle(id)
    IN  /\ Enter(r, "update_article", [id |-> id, data |-> data])
        /\ ResetAndCount(r, IF article = None THEN 1 ELSE 3, 1)
        /\ loc' = [loc EXCEPT ![r] = article]
        /\ IF article = None
           THEN Return(r, None, 404)
           ELSE Goto(r, "flush")
        /\ UNCHANGED <<db, nextId, cacheVars, tx, wasHit, cacheFault, purged,
                       viewMisses, call, prev, sideVars>>

\* setattr for every field set in the payload; flush emits an UPDATE of the
\* attributes that changed, and none when nothing changed.
UpdateArticle_Flush(r) ==
    LET id      == arg[r].id
        data    == arg[r].data
        changed == {f \in DOMAIN data : data[f] # loc[r][f]}
        article == [f \in DOMAIN loc[r] |->
                      IF f \in DOMAIN data THEN data[f] ELSE loc[r][f]]
    IN  /\ pc[r] = "flush"
        /\ op[r] = "update_article"
        /\ changed # {} => ~LockedByOther(r, id, "update")
        /\ CountQueries(r, IF changed = {} THEN 0 ELSE 1, 0)
        /\ IF changed # {} /\ db[id] = None
           THEN /\ Return(r, None, 500)
                /\ UNCHANGED <<loc, tx>>
           ELSE /\ loc' = [loc EXCEPT ![r] = article]
                /\ tx' = [tx EXCEPT ![r] =
                            IF changed = {} THEN None
                            ELSE [kind |-> "update", id |-> id,
                                  set |-> [f \in changed |-> data[f]]]]
                /\ Goto(r, "inval_list")
        /\ UNCHANGED pre
        /\ UNCHANGED <<db, nextId, cacheVars, op, arg, wasHit, cacheFault, purged,
                       viewMisses, call, prev, sideVars>>

\* -------------------------------------------------------- delete_article
\* Variant: the invalidation is issued before the DELETE is flushed.
DeleteArticle_SelectThenInvalidate(r, id) ==
    LET article == LoadArticle(id)
    IN  /\ Enter(r, "delete_article", [id |-> id])
        /\ ResetAndCount(r, 1, 0)
        /\ loc' = [loc EXCEPT ![r] = article]
        /\ IF article = None
           THEN Return(r, FALSE, 404)
           ELSE Goto(r, "inval_list")
        /\ UNCHANGED <<db, nextId, cacheVars, tx, wasHit, cacheFault, purged,
                       viewMisses, call, prev, sideVars>>

DeleteArticle_Select(r, id) ==
    LET article == LoadArticle(id)
    IN  /\ Enter(r, "delete_article", [id |-> id])
        /\ ResetAndCount(r, 1, 0)
        /\ loc' = [loc EXCEPT ![r] = article]
        /\ IF article = None
           THEN Return(r, FALSE, 404)
           ELSE Goto(r, "flush")
        /\ UNCHANGED <<db, nextId, cacheVars, tx, wasHit, cacheFault, purged,
                       viewMisses, call, prev, sideVars>>

DeleteArticle_Flush(r) ==
    LET id == arg[r].id
    IN  /\ pc[r] = "flush"
        /\ op[r] = "delete_article"
        /\ ~LockedByOther(r, id, "delete")
        /\ CountQueries(r, 1, 0)
        /\ tx' = [tx EXCEPT ![r] = [kind |-> "delete", id |-> id]]
        /\ Goto(r, "inval_list")
        /\ UNCHANGED pre
        /\ UNCHANGED <<db, nextId, cacheVars, op, arg, loc, wasHit, cacheFault,
                       purged, viewMisses, call, prev, sideVars>>

\* ----------------------------------------------------------- add_comment
AddComment_Select(r, id) ==
    LET article == LoadArticle(id)
    IN  /\ Enter(r, "add_comment", [id |-> id])
        /\ IF article = None THEN TRUE
           ELSE article.comments + InFlight("add_comment", id) < MaxComments
        /\ ResetAndCount(r, 1, 1)
        /\ loc' = [loc EXCEPT ![r] = article]
        /\ IF article = None
           THEN Return(r, None, 404)
           ELSE Goto(r, "flush")
        /\ UNCHANGED <<db, nextId, cacheVars, tx, wasHit, cacheFault, purged,
                       viewMisses, call, prev, sideVars>>

\* db.add(comment); flush: INSERT INTO comments.  The foreign key fails the
\* INSERT (IntegrityError) when the article row is gone.
AddComment_Flush(r) ==
    LET id == arg[r].id
    IN  /\ pc[r] = "flush"
        /\ op[r] = "add_comment"
        /\ ~LockedByOther(r, id, "comment")
        /\ CountQueries(r, 1, 0)
        /\ IF db[id] = None
           THEN /\ Return(r, None, 500)
                /\ UNCHANGED <<loc, tx>>
           ELSE /\ loc' = [loc EXCEPT ![r] = [article_id |-> id]]
                /\ tx' = [tx EXCEPT ![r] = [kind |-> "comment", id |-> id]]
                /\ Goto(r, "inval_list")
        /\ UNCHANGED pre
        /\ UNCHANGED <<db, nextId, cacheVars, op, arg, wasHit, cacheFault, purged,
                       viewMisses, call, prev, sideVars>>

\* ---------------------------------------------------- invalidate_article
\* Variant: add_comment leaves the list namespace alone.
Invalidate_ListSkippedForComment(r) ==
    /\ pc[r] = "inval_list"
    /\ store' = IF op[r] = "add_comment" THEN store ELSE DeletePattern(ListPattern)
    /\ NoteFault(r)
    /\ IF op[r] = "create_article"
       THEN Return(r, ArticleDetailToDict(loc[r]), 201)
       ELSE Goto(r, "inval_detail")
    /\ UNCHANGED pre
    /\ UNCHANGED <<db, nextId, redis, storeUp, hits, misses, op, arg, loc, tx, qc, stmts,
                   wasHit, purged, viewMisses, call, prev, sideVars>>

\* First await of cache.invalidate_article: delete_pattern("articles:list:*").
\* create_article passes no id, so the call returns after it.
Invalidate_List(r) ==
    /\ pc[r] = "inval_list"
    /\ store' = DeletePattern(ListPattern)
    /\ NoteFault(r)
    /\ IF op[r] = "create_article"
       THEN Return(r, ArticleDetailToDict(loc[r]), 201)
       ELSE Goto(r, "inval_detail")
    /\ UNCHANGED pre
    /\ UNCHANGED <<db, nextId, redis, storeUp, hits, misses, op, arg, loc, tx, qc, stmts,
                   wasHit, purged, viewMisses, call, prev, sideVars>>

\* Variant: the detail entry is not purged.
Invalidate_DetailNotIssued(r) ==
    /\ pc[r] = "inval_detail"
    /\ store' = store
    /\ NoteFault(r)
    /\ IF op[r] = "update_article" THEN Return(r, ArticleDetailToDict(loc[r]), 200)
       ELSE IF op[r] = "delete_article" THEN Return(r, TRUE, 204)
       ELSE Return(r, loc[r], 201)
    /\ UNCHANGED pre
    /\ UNCHANGED <<db, nextId, redis, storeUp, hits, misses, op, arg, loc, tx, qc, stmts,
                   wasHit, purged, viewMisses, call, prev, sideVars>>

\* Second await: delete_pattern(f"articles:detail:{article_id}"), after
\* which update_article, delete_article and add_comment return.
Invalidate_Detail(r) ==
    /\ pc[r] = "inval_detail"
    /\ store' = DeletePattern(DetailKey(arg[r].id))
    /\ NoteFault(r)
    /\ IF op[r] = "update_article" THEN Return(r, ArticleDetailToDict(loc[r]), 200)
       ELSE IF op[r] = "delete_article" THEN Return(r, TRUE, 204)
       ELSE Return(r, loc[r], 201)
    /\ UNCHANGED pre
    /\ UNCHANGED <<db, nextId, redis, storeUp, hits, misses, op, arg, loc, tx, qc, stmts,
                   wasHit, purged, viewMisses, call, prev, sideVars>>

\* ------------------------------------------------------ get_db, response
\* The task's slot is free again.
Reset(r) ==
    /\ pc' = [pc EXCEPT ![r] = "idle"]
    /\ op' = [op EXCEPT ![r] = "none"]
    /\ arg' = [arg EXCEPT ![r] = None]
    /\ loc' = [loc EXCEPT ![r] = None]
    /\ ret' = [ret EXCEPT ![r] = None]
    /\ status' = [status EXCEPT ![r] = 0]
    /\ tx' = [tx EXCEPT ![r] = None]
    /\ qc' = [qc EXCEPT ![r] = 0]
    /\ stmts' = [stmts EXCEPT ![r] = 0]
    /\ wasHit' = [wasHit EXCEPT ![r] = FALSE]
    /\ cacheFault' = [cacheFault EXCEPT ![r] = FALSE]
    /\ pre' = [pre EXCEPT ![r] = EmptyDict]
    /\ log' = [log EXCEPT ![r] = <<>>]

\* await session.commit(); the response (status[r], ret[r], x-query-count =
\* qc[r]) goes out and the task ends.
CommitTx(r) ==
    /\ pc[r] = "commit"
    /\ db' = ApplyTx(tx[r])
    /\ viewMisses' =
         IF op[r] = "get_article" /\ ~wasHit[r]
         THEN [viewMisses EXCEPT ![arg[r].id] = @ + 1]
         ELSE viewMisses
    /\ purged' =
         IF op[r] = "delete_article" /\ redis = "client" /\ ~cacheFault[r]
         THEN purged \cup
                {[id |-> arg[r].id, warm |-> DetailKey(arg[r].id) \in DOMAIN pre[r]]}
         ELSE purged
    /\ Reset(r)
    /\ UNCHANGED <<nextId, cacheVars, call, sideVars>>

Commit(r) == CommitTx(r) /\ UNCHANGED prev

\* Variant: the session is closed without the rollback and its flushed
\* write stays.
RollbackTxKeepsWrite(r) ==
    /\ pc[r] = "rollback"
    /\ db' = ApplyTx(tx[r])
    /\ Reset(r)
    /\ UNCHANGED <<nextId, cacheVars, purged, viewMisses, call, sideVars>>

\* The router raised: await session.rollback(); raise.  The error response
\* goes out and the task ends.
RollbackTx(r) ==
    /\ pc[r] = "rollback"
    /\ Reset(r)
    /\ UNCHANGED <<db, nextId, cacheVars, purged, viewMisses, call, sideVars>>

Rollback(r) == RollbackTx(r) /\ UNCHANGED prev

\* The answered request joins the record of the last two.
Answered(r) ==
    LET q == Append(prev, [op |-> op[r], arg |-> arg[r], ret |-> ret[r],
                           status |-> status[r], hit |-> wasHit[r]])
    IN  prev' = IF Len(q) > 2 THEN Tail(q) ELSE q

Commit_Answered(r) == CommitTx(r) /\ Answered(r)

Rollback_Answered(r) == RollbackTx(r) /\ Answered(r)

\* ----------------------------------------------------------- environment
AllIdle == \A r \in Reqs : pc[r] = "idle"

\* lifespan startup: cache.connect(); a failed ping is logged only.
Connect ==
    /\ AllIdle
    /\ redis' = "client"
    /\ UNCHANGED <<db, nextId, store, storeUp, hits, misses, reqVars, purged,
                   viewMisses, call, prev, sideVars>>

\* lifespan shutdown: cache.disconnect().
Disconnect ==
    /\ AllIdle
    /\ redis' = IF redis = "client" THEN "none" ELSE redis
    /\ storeUp' = TRUE
    /\ UNCHANGED <<db, nextId, store, hits, misses, reqVars, purged, viewMisses, call, prev, sideVars>>

\* The Redis server stops or resumes answering.
StoreOutage ==
    /\ redis = "client"
    /\ storeUp' = ~storeUp
    /\ UNCHANGED <<db, nextId, store, redis, hits, misses, reqVars, purged,
                   viewMisses, call, prev, sideVars>>

\* Redis drops an entry whose TTL ran out.  An expiry during a request
\* takes effect before the request's first or after its last use of the key.
Expire(k) ==
    /\ AllIdle
    /\ k \in DOMAIN store
    /\ store' = [j \in DOMAIN store \ {k} |-> store[j]]
    /\ UNCHANGED <<db, nextId, redis, storeUp, hits, misses, reqVars, purged,
                   viewMisses, call, prev, sideVars>>

\* ------------------------------------------- CacheManager, called directly
\* Keys, values and patterns the methods are called with.
CacheKeys ==
    {ListKey(1, 1, <<"created_at">>, <<"desc">>),
     ListKey(2, 1, <<"created_at">>, <<"desc">>),
     DetailKey(1)}
CacheValues == {[total |-> 0], [total |-> 1], Circular}
CachePatterns == {ListPattern, DetailKey(1), DetailKey(2)}
CacheTtls == {CACHE_TTL_LIST, CACHE_TTL_DETAIL}

\* What a direct call leaves alone besides the CacheManager and its store.
appVars == <<db, nextId, reqVars, purged, viewMisses, prev, sideVars>>

\* Variant: the quotient is cut after the first decimal.
HitRateTruncated(h, m) ==
    IF h + m > 0 THEN (1000 * h) \div (h + m) ELSE 0

\* round(hits / total * 100, 1) if total > 0 else 0.0, in tenths of a
\* percent: the nearest tenth, a tie going to the even one.
HitRate(h, m) ==
    IF h + m > 0
    THEN LET t == h + m
             q == (1000 * h) \div t
             d == 2 * ((1000 * h) % t)
         IN  IF d > t THEN q + 1
             ELSE IF d < t THEN q
             ELSE IF q % 2 = 0 THEN q ELSE q + 1
    ELSE 0

\* The redis call and json.loads are inside the try; `except Exception`
\* returns None, so nothing leaves the method.
Cache_Get(key) ==
    /\ hits + misses < MaxGets
    /\ hits' = hits + GetHits(key)
    /\ misses' = misses + GetMisses(key)
    /\ call' = [name |-> "get", key |-> key, result |-> CacheGet(key),
                raised |-> FALSE, contacted |-> redis = "client"]
    /\ UNCHANGED <<store, redis, storeUp, appVars>>

\* json.dumps and the redis call are inside the try; the handler logs.
Cache_Set(key, value, ttl) ==
    /\ store' = CacheSet(key, value, ttl)
    /\ call' = [name |-> "set", key |-> key, value |-> value, ttl |-> ttl,
                raised |-> FALSE,
                contacted |-> redis = "client" /\ Serialisable(value)]
    /\ UNCHANGED <<redis, storeUp, hits, misses, appVars>>

\* scan_iter and delete are inside the try; the handler logs.
Cache_DeletePattern(pattern) ==
    /\ store' = DeletePattern(pattern)
    /\ call' = [name |-> "delete_pattern", pattern |-> pattern,
                raised |-> FALSE, contacted |-> redis = "client"]
    /\ UNCHANGED <<redis, storeUp, hits, misses, appVars>>

\* Variant: connect starts the counters again.
Cache_ConnectResets ==
    /\ redis' = "client"
    /\ hits' = 0
    /\ misses' = 0
    /\ call' = [name |-> "connect", ping |-> IF storeUp THEN "ok" ELSE "failed",
                raised |-> FALSE]
    /\ UNCHANGED <<store, storeUp, appVars>>

\* connect: the client is assigned, then pinged inside a try whose handler
\* logs "cache disabled" and leaves _redis as it is.
Cache_Connect ==
    /\ redis' = "client"
    /\ call' = [name |-> "connect", ping |-> IF storeUp THEN "ok" ELSE "failed",
                raised |-> FALSE]
    /\ UNCHANGED <<store, storeUp, hits, misses, appVars>>

\* Variant: disconnect without the `if self._redis` guard.
Cache_DisconnectUnguarded ==
    /\ redis' = IF redis = "client" THEN "none" ELSE redis
    /\ call' = [name |-> "disconnect", closed |-> redis = "client",
                raised |-> redis = "none", after |-> call.name]
    /\ UNCHANGED <<store, storeUp, hits, misses, appVars>>

\* disconnect: aclose() and _redis = None when a client is set.
Cache_Disconnect ==
    /\ redis' = IF redis = "client" THEN "none" ELSE redis
    /\ call' = [name |-> "disconnect", closed |-> redis = "client",
                raised |-> FALSE, after |-> call.name]
    /\ UNCHANGED <<store, storeUp, hits, misses, appVars>>

\* stats: a property reading the two counters.
Cache_Stats ==
    /\ call' = [name |-> "stats",
                result |-> [hits |-> hits, misses |-> misses,
                            hit_rate |-> HitRate(hits, misses)]]
    /\ UNCHANGED <<store, redis, storeUp, hits, misses, appVars>>

\* The Redis server stops or resumes answering, client or no client.
Cache_Outage ==
    /\ storeUp' = ~storeUp
    /\ call' = NoCall
    /\ UNCHANGED <<store, redis, hits, misses, appVars>>

\* Another client of the Redis server leaves text that is not JSON under a
\* key of the namespace.
Cache_Foreign(key) ==
    /\ storeUp
    /\ store' = [k \in DOMAIN store \cup {key} |->
                   IF k = key THEN [data |-> Garbage, ex |-> 0] ELSE store[k]]
    /\ call' = NoCall
    /\ UNCHANGED <<redis, storeUp, hits, misses, appVars>>

NextCache ==
    \/ \E key \in CacheKeys : Cache_Get(key)
    \/ \E key \in CacheKeys, value \in CacheValues, ttl \in CacheTtls :
          Cache_Set(key, value, ttl)
    \/ \E pattern \in CachePatterns : Cache_DeletePattern(pattern)
    \/ Cache_Connect
    \/ Cache_Disconnect
    \/ Cache_Stats
    \/ Cache_Outage
    \/ \E key \in CacheKeys : Cache_Foreign(key)

\* The CacheManager singleton from its construction on, its methods called
\* in any order with the server up or down.
SpecCache == Init /\ [][NextCache]_vars

\* ------------------------------------------- invalidate_article, directly
\* Ids passed to invalidate_article: one is a decimal prefix of the other.
InvalIds == {1, 10}
InvalKeys ==
    {ListKey(1, 1, <<"created_at">>, <<"desc">>)} \cup {DetailKey(i) : i \in InvalIds}
\* article_id: int | None, as a sequence of at most one id.
InvalArgs == {<<>>} \cup {<<i>> : i \in InvalIds}

\* Variant: every key the pattern is a prefix of is removed.
DeletePatternInByPrefix(st, pattern) ==
    IF redis = "none" THEN st
    ELSE IF ~storeUp THEN st
    ELSE LET keys == {k \in DOMAIN st : GlobMatch(pattern \o <<"*">>, k)}
         IN  [k \in DOMAIN st \ keys |-> st[k]]

\* delete_pattern on the store st that an earlier await of the same call
\* left.
DeletePatternIn(st, pattern) ==
    IF redis = "none" THEN st
    ELSE IF ~storeUp THEN st
    ELSE LET keys == {k \in DOMAIN st : GlobMatch(pattern, k)}
         IN  [k \in DOMAIN st \ keys |-> st[k]]

\* Variant: with no key found the whole database is flushed.
Cache_InvalidateArticleFlushes(ids) ==
    LET purged_ == IF ids = <<>> THEN DeletePattern(ListPattern)
                   ELSE DeletePatternIn(DeletePattern(ListPattern),
                                        DetailKey(ids[1]))
        after   == IF StoreCallWorks /\ purged_ = store
                   THEN [k \in {} |-> None] ELSE purged_
    IN  /\ store' = after
        /\ call' = [name |-> "invalidate_article", ids |-> ids,
                    removed |-> DOMAIN store \ DOMAIN purged_]
        /\ UNCHANGED <<redis, storeUp, hits, misses, appVars>>

\* invalidate_article: delete_pattern("articles:list:*"), then
\* delete_pattern(f"articles:detail:{article_id}") when an id is given.
\* The call record keeps the keys the call removed.
Cache_InvalidateArticle(ids) ==
    LET after == IF ids = <<>> THEN DeletePattern(ListPattern)
                 ELSE DeletePatternIn(DeletePattern(ListPattern),
                                      DetailKey(ids[1]))
    IN  /\ store' = after
        /\ call' = [name |-> "invalidate_article", ids |-> ids,
                    removed |-> DOMAIN store \ DOMAIN after]
        /\ UNCHANGED <<redis, storeUp, hits, misses, appVars>>

NextInval ==
    \/ \E key \in InvalKeys : Cache_Get(key)
    \/ \E key \in InvalKeys : Cache_Set(key, [total |-> 0], CACHE_TTL_DETAIL)
    \/ \E pattern \in {ListPattern} : Cache_DeletePattern(pattern)
    \/ \E ids \in InvalArgs : Cache_InvalidateArticle(ids)
    \/ Cache_Connect
    \/ Cache_Disconnect
    \/ Cache_Stats
    \/ Cache_Outage

\* The CacheManager with invalidate_article among the methods called.
SpecInval == Init /\ [][NextInval]_vars

\* --------------------------------------------------------- specifications
\* Ids requested: those handed out so far and one that was not.
IdArgs == {i \in Ids : i <= nextId}

Begin(r) ==
    \/ \E a \in ListArgs : GetArticles_CacheGet(r, a)
    \/ \E id \in IdArgs : GetArticle_CacheGet(r, id)
    \/ \E data \in CreateArgs : CreateArticle_SlugCheck(r, data)
    \/ \E id \in IdArgs, data \in UpdateData : UpdateArticle_Select(r, id, data)
    \/ \E id \in IdArgs : DeleteArticle_Select(r, id)
    \/ \E id \in IdArgs : AddComment_Select(r, id)

Continue(r) ==
    \/ GetArticles_Count(r)
    \/ GetArticles_Select(r)
    \/ GetArticles_CacheSet(r)
    \/ GetArticle_Select(r)
    \/ GetArticle_Flush(r)
    \/ GetArticle_CacheSet(r)
    \/ CreateArticle_Flush(r)
    \/ UpdateArticle_Flush(r)
    \/ DeleteArticle_Flush(r)
    \/ AddComment_Flush(r)
    \/ Invalidate_List(r)
    \/ Invalidate_Detail(r)
    \/ Commit(r)
    \/ Rollback(r)

Environment ==
    \/ Connect
    \/ Disconnect
    \/ StoreOutage
    \/ \E k \in DOMAIN store : Expire(k)

\* One request at a time.
Next == Environment \/ Begin(1) \/ Continue(1)

Spec == Init /\ [][Next]_vars

\* The tasks of up to MaxTasks requests on one stored article interleave at
\* their awaits; the cache is connected and the server answers.
InitConc ==
    /\ db = [i \in Ids |->
               IF i = 1 THEN NewRow([is_published |-> TRUE]) ELSE None]
    /\ nextId = 2
    /\ store = [k \in {} |-> None]
    /\ redis = "client"
    /\ storeUp = TRUE
    /\ hits = 0
    /\ misses = 0
    /\ pc = [r \in Reqs |-> "idle"]
    /\ op = [r \in Reqs |-> "none"]
    /\ arg = [r \in Reqs |-> None]
    /\ loc = [r \in Reqs |-> None]
    /\ ret = [r \in Reqs |-> None]
    /\ status = [r \in Reqs |-> 0]
    /\ tx = [r \in Reqs |-> None]
    /\ qc = [r \in Reqs |-> 0]
    /\ wasHit = [r \in Reqs |-> FALSE]
    /\ cacheFault = [r \in Reqs |-> FALSE]
    /\ pre = [r \in Reqs |-> EmptyDict]
    /\ log = [r \in Reqs |-> <<>>]
    /\ purged = {}
    /\ viewMisses = [i \in Ids |-> 0]
    /\ call = NoCall
    /\ prev = <<>>
    /\ stmts = [r \in Reqs |-> 0]
    /\ users = {}
    /\ slugOf = [i \in {} |-> <<>>]
    /\ publishedAt = [i \in {} |-> 0]
    /\ now = 0

BeginConc(r) ==
    \/ GetArticle_CacheGet(r, 1)
    \/ \E data \in UpdateData : UpdateArticle_Select(r, 1, data)
    \/ DeleteArticle_Select(r, 1)
    \/ AddComment_Select(r, 1)

ContinueConc(r) ==
    \/ GetArticle_Select(r)
    \/ GetArticle_Flush(r)
    \/ GetArticle_CacheSet(r)
    \/ UpdateArticle_Flush(r)
    \/ DeleteArticle_Flush(r)
    \/ AddComment_Flush(r)
    \/ Invalidate_List(r)
    \/ Invalidate_Detail(r)
    \/ Commit(r)
    \/ Rollback(r)

NextConc == \E r \in Reqs : BeginConc(r) \/ ContinueConc(r)

SpecConc == InitConc /\ [][NextConc]_vars

\* One request at a time with the cache connected and the server answering
\* throughout (lifespan startup done, ping answered); entries may expire.
InitEnabled ==
    /\ db = [i \in Ids |-> None]
    /\ nextId = 1
    /\ store = [k \in {} |-> None]
    /\ redis = "client"
    /\ storeUp = TRUE
    /\ hits = 0
    /\ misses = 0
    /\ pc = [r \in Reqs |-> "idle"]
    /\ op = [r \in Reqs |-> "none"]
    /\ arg = [r \in Reqs |-> None]
    /\ loc = [r \in Reqs |-> None]
    /\ ret = [r \in Reqs |-> None]
    /\ status = [r \in Reqs |-> 0]
    /\ tx = [r \in Reqs |-> None]
    /\ qc = [r \in Reqs |-> 0]
    /\ wasHit = [r \in Reqs |-> FALSE]
    /\ cacheFault = [r \in Reqs |-> FALSE]
    /\ pre = [r \in Reqs |-> EmptyDict]
    /\ log = [r \in Reqs |-> <<>>]
    /\ purged = {}
    /\ viewMisses = [i \in Ids |-> 0]
    /\ call = NoCall
    /\ prev = <<>>
    /\ stmts = [r \in Reqs |-> 0]
    /\ users = {}
    /\ slugOf = [i \in {} |-> <<>>]
    /\ publishedAt = [i \in {} |-> 0]
    /\ now = 0

ContinueEnabled(r) ==
    \/ GetArticles_Count(r)
    \/ GetArticles_Select(r)
    \/ GetArticles_CacheSet(r)
    \/ GetArticle_Select(r)
    \/ GetArticle_Flush(r)
    \/ GetArticle_CacheSet(r)
    \/ CreateArticle_Flush(r)
    \/ UpdateArticle_Flush(r)
    \/ DeleteArticle_Flush(r)
    \/ AddComment_Flush(r)
    \/ Invalidate_List(r)
    \/ Invalidate_Detail(r)
    \/ Commit_Answered(r)
    \/ Rollback_Answered(r)

NextEnabled ==
    \/ \E k \in DOMAIN store : Expire(k)
    \/ Begin(1)
    \/ ContinueEnabled(1)

SpecEnabled == InitEnabled /\ [][NextEnabled]_vars

\* ------------------------------------------- commit failure in get_db
\* await session.commit() raises (the connection is lost, the server is
\* down): except Exception: await session.rollback(); raise.  Explored for
\* the sessions that hold a flushed write.
Commit_Raises(r) ==
    /\ pc[r] = "commit"
    /\ tx[r] # None
    /\ status' = [status EXCEPT ![r] = 500]
    /\ pc' = [pc EXCEPT ![r] = "rollback"]
    /\ log' = [log EXCEPT ![r] = Append(@, "commit")]
    /\ UNCHANGED <<db, nextId, cacheVars, op, arg, loc, ret, tx, qc, stmts, wasHit,
                   cacheFault, pre, purged, viewMisses, call, prev, sideVars>>

NextTx == Next \/ Commit_Raises(1)

SpecTx == Init /\ [][NextTx]_vars

\* ------------------------------------------------ the response headers
\* The two headers send_wrapper appends to http.response.start.
DiagnosticHeaders == {"x-response-time-ms", "x-query-count"}

\* The headers TimingMiddleware has put on the response of task r.  The
\* response of the route, and the response an exception handler makes of an
\* HTTPException, are sent through send_wrapper.  An exception no handler
\* takes leaves self.app(scope, receive, send_wrapper) as an exception:
\* __call__ has no try around it, and the 500 is sent by the server-error
\* layer outside the middleware added in main.py, with the send it was given.
ResponseHeaders(r) ==
    IF status[r] >= 500 THEN {} ELSE DiagnosticHeaders

\* ------------------------------------------------------------ the users
UserNames == {"ann", "bob", "cy"}
Emails    == {"a@x", "b@x", "c@x"}
UserCreates == [username : UserNames, email : Emails]

\* INSERT INTO users fails on the unique constraint of username or email.
UniqueViolation(data) ==
    \E u \in users : u.username = data.username \/ u.email = data.email

\* Variant: the router lets the IntegrityError through.
User_CreateUnhandled(data) ==
    /\ users' = IF UniqueViolation(data) THEN users ELSE users \cup {data}
    /\ call' = [name |-> "create_user", data |-> data,
                status |-> IF UniqueViolation(data) THEN 500 ELSE 201]
    /\ UNCHANGED <<cacheVars, db, nextId, reqVars, purged, viewMisses, prev,
                   slugOf, now, publishedAt>>

\* POST /api/v1/users: db.add(user); flush.  The router turns the
\* IntegrityError of the flush into HTTPException(409), get_db rolls back;
\* otherwise 201 and get_db commits.
User_Create(data) ==
    /\ users' = IF UniqueViolation(data) THEN users ELSE users \cup {data}
    /\ call' = [name |-> "create_user", data |-> data,
                status |-> IF UniqueViolation(data) THEN 409 ELSE 201]
    /\ UNCHANGED <<cacheVars, db, nextId, reqVars, purged, viewMisses, prev,
                   slugOf, now, publishedAt>>

NextUsers == \E data \in UserCreates : User_Create(data)

SpecUsers == Init /\ [][NextUsers]_vars

\* ------------------------------------------------------------ the slugs
\* Titles, as sequences of characters.
Titles == {<<"A">>, <<"a", "!">>, <<"b">>, <<" ", "a", "_", "-", "b">>,
           <<"a", " ", "b">>}

\* str.lower of one character.
Lower(c) == IF c = "A" THEN "a" ELSE IF c = "B" THEN "b" ELSE c

\* \s
IsSpace(c) == c = " "

\* str.strip(chars) at both ends.
RECURSIVE LStrip(_, _)
LStrip(t, chars) ==
    IF t # <<>> /\ Head(t) \in chars THEN LStrip(Tail(t), chars) ELSE t

RECURSIVE RStrip(_, _)
RStrip(t, chars) ==
    IF t # <<>> /\ t[Len(t)] \in chars
    THEN RStrip(SubSeq(t, 1, Len(t) - 1), chars)
    ELSE t

Strip(t, chars) == RStrip(LStrip(t, chars), chars)

\* re.sub(class+, "-", t): every maximal run of characters of the class
\* becomes one dash.
RECURSIVE RunsToDash(_, _)
RunsToDash(t, class) ==
    IF t = <<>> THEN <<>>
    ELSE IF Head(t) \in class
         THEN <<"-">> \o RunsToDash(LStrip(t, class), class)
         ELSE <<Head(t)>> \o RunsToDash(Tail(t), class)

\* slugify(text).
Slugify(text) ==
    LET lowered  == Strip([i \in 1..Len(text) |-> Lower(text[i])], {" "})
        kept(c)  == c \in {"a", "b", "_", "-"} \/ IsSpace(c)
        stripped == SelectSeq(lowered, kept)
        spaced   == RunsToDash(stripped, {" ", "_"})
    IN  Strip(RunsToDash(spaced, {"-"}), {"-"})

\* Rows that hold the slug.
SlugTaken(slug) == \E i \in DOMAIN slugOf : slugOf[i] = slug

\* POST /api/v1/articles with a title, one request as a whole (cache
\* disabled): the slug is suffixed with the time when a row holds it; the
\* INSERT fails on the unique constraint (IntegrityError, 500, rollback)
\* when a row holds the slug that was chosen.
Slug_CreateArticle(title) ==
    LET base == Slugify(title)
        slug == IF SlugTaken(base) THEN base \o <<"-">> \o Str(now) ELSE base
        ok   == ~SlugTaken(slug)
    IN  /\ redis = "none"
        /\ AllIdle
        /\ IF ok THEN nextId <= MaxId ELSE TRUE
        /\ nextId' = IF ok THEN nextId + 1 ELSE nextId
        /\ db' = IF ok THEN [db EXCEPT ![nextId] = NewRow([is_published |-> FALSE])]
                 ELSE db
        /\ slugOf' = IF ok
                     THEN [i \in DOMAIN slugOf \cup {nextId} |->
                              IF i = nextId THEN slug ELSE slugOf[i]]
                     ELSE slugOf
        /\ call' = [name |-> "create_article", title |-> title,
                    status |-> IF ok THEN 201 ELSE 500]
        /\ UNCHANGED <<cacheVars, reqVars, purged, viewMisses, prev, users, now,
                     publishedAt>>

\* PUT /api/v1/articles/{id} with a title, one request as a whole (cache
\* disabled): 404 without a row; article.slug = slugify(title); the UPDATE
\* of the flush fails on the unique constraint when another row holds the
\* slug, and nothing catches the IntegrityError: 500, rollback.
Slug_UpdateArticle(id, title) ==
    LET slug  == Slugify(title)
        found == id \in DOMAIN slugOf
        clash == found /\ \E j \in DOMAIN slugOf \ {id} : slugOf[j] = slug
    IN  /\ redis = "none"
        /\ AllIdle
        /\ slugOf' = IF found /\ ~clash THEN [slugOf EXCEPT ![id] = slug]
                     ELSE slugOf
        /\ call' = [name |-> "update_article", id |-> id, title |-> title,
                    status |-> IF ~found THEN 404
                               ELSE IF clash THEN 500 ELSE 200]
        /\ UNCHANGED <<cacheVars, db, nextId, reqVars, purged, viewMisses, prev,
                       users, now, publishedAt>>

\* A second passes.
Tick ==
    /\ now < MaxNow
    /\ now' = now + 1
    /\ call' = NoCall
    /\ UNCHANGED <<cacheVars, db, nextId, reqVars, purged, viewMisses, prev,
                   users, slugOf, publishedAt>>

NextSlug ==
    \/ \E title \in Titles : Slug_CreateArticle(title)
    \/ \E id \in Ids, title \in Titles : Slug_UpdateArticle(id, title)
    \/ Tick

SpecSlug == Init /\ [][NextSlug]_vars

\* ------------------------------------------------- across a restart
\* The application process is restarted: lifespan shutdown, then a new
\* CacheManager (its counters start at 0) that connects.  Redis keeps its
\* contents.
Restart ==
    /\ AllIdle
    /\ redis = "client"
    /\ hits + misses > 0
    /\ hits' = 0
    /\ misses' = 0
    /\ UNCHANGED <<db, nextId, store, redis, storeUp, reqVars, purged, viewMisses,
                   call, prev, sideVars>>

\* One request at a time, the cache connected and answering, no entry
\* expiring.
NextStale ==
    \/ Restart
    \/ Begin(1)
    \/ Continue(1)

SpecStale == InitEnabled /\ [][NextStale]_vars

\* ------------------------------------------- list pages and publication
\* Requests with the cache disabled, each as a whole: what get_articles
\* computes from the rows, and what create_article and update_article do to
\* published_at.
RowPageSizes == {1, 2, 3}
RowListArgs ==
    [page : 1..MaxPage, page_size : RowPageSizes, sort_by : SortBys,
     sort_order : {<<"asc">>, <<"desc">>}]

\* POST /api/v1/articles: published_at is set when the article is created
\* published.
Rows_CreateArticle(data) ==
    /\ redis = "none"
    /\ AllIdle
    /\ nextId <= MaxId
    /\ nextId' = nextId + 1
    /\ db' = [db EXCEPT ![nextId] = NewRow(data)]
    /\ publishedAt' = IF data.is_published
                      THEN [i \in DOMAIN publishedAt \cup {nextId} |->
                               IF i = nextId THEN now ELSE publishedAt[i]]
                      ELSE publishedAt
    /\ call' = [name |-> "create_article", id |-> nextId, data |-> data]
    /\ UNCHANGED <<cacheVars, reqVars, purged, viewMisses, prev, users, slugOf, now>>

\* Variant: every update that publishes stamps published_at.
Rows_UpdateArticleRestamps(id, data) ==
    /\ redis = "none"
    /\ AllIdle
    /\ db' = IF db[id] = None THEN db
             ELSE [db EXCEPT ![id].is_published = data.is_published]
    /\ publishedAt' = IF db[id] # None /\ data.is_published
                      THEN [i \in DOMAIN publishedAt \cup {id} |->
                               IF i = id THEN now ELSE publishedAt[i]]
                      ELSE publishedAt
    /\ call' = [name |-> "update_article", id |-> id, data |-> data]
    /\ UNCHANGED <<cacheVars, nextId, reqVars, purged, viewMisses, prev, users,
                   slugOf, now>>

\* PUT /api/v1/articles/{id}: setattr of the fields set in the payload,
\* then published_at is set if the payload publishes and it is not set yet.
Rows_UpdateArticle(id, data) ==
    /\ redis = "none"
    /\ AllIdle
    /\ db' = IF db[id] = None THEN db
             ELSE [db EXCEPT ![id].is_published = data.is_published]
    /\ publishedAt' = IF db[id] # None /\ data.is_published
                         /\ id \notin DOMAIN publishedAt
                      THEN [i \in DOMAIN publishedAt \cup {id} |->
                               IF i = id THEN now ELSE publishedAt[i]]
                      ELSE publishedAt
    /\ call' = [name |-> "update_article", id |-> id, data |-> data]
    /\ UNCHANGED <<cacheVars, nextId, reqVars, purged, viewMisses, prev, users,
                   slugOf, now>>

\* DELETE /api/v1/articles/{id}.
Rows_DeleteArticle(id) ==
    /\ redis = "none"
    /\ AllIdle
    /\ db[id] # None
    /\ db' = [db EXCEPT ![id] = None]
    /\ publishedAt' = [i \in DOMAIN publishedAt \ {id} |-> publishedAt[i]]
    /\ call' = [name |-> "delete_article", id |-> id]
    /\ UNCHANGED <<cacheVars, nextId, reqVars, purged, viewMisses, prev, users,
                   slugOf, now>>

\* GET /api/v1/articles: the count, the page SELECT and the response.
Rows_GetArticles(a) ==
    /\ redis = "none"
    /\ AllIdle
    /\ call' = [name |-> "get_articles", args |-> a,
                resp |-> PaginatedResponse(PageRows(a),
                                           Cardinality(PublishedIds), a)]
    /\ UNCHANGED <<cacheVars, db, nextId, reqVars, purged, viewMisses, prev,
                   sideVars>>

NextRows ==
    \/ \E data \in CreateArgs : Rows_CreateArticle(data)
    \/ \E id \in Ids, data \in UpdateData : Rows_UpdateArticle(id, data)
    \/ \E id \in Ids : Rows_DeleteArticle(id)
    \/ \E a \in RowListArgs : Rows_GetArticles(a)
    \/ Tick

SpecRows == Init /\ [][NextRows]_vars

\* ------------------------------------------------- the list cache key
\* Values get_articles takes: any page and page_size the caller passes and
\* any strings for sort_by and sort_order (a sort_by outside
\* _SORTABLE_COLUMNS falls back to created_at, a sort_order other than
\* "desc" sorts ascending).
KeyPageSizes  == {1, 12}
KeySortBys    == {<<"title">>, <<"created_at">>, <<"title", ":", "desc">>}
KeySortOrders == {<<"asc">>, <<"desc">>, <<"x">>, <<"desc", ":", "x">>}
KeyArgs ==
    [page : 1..MaxPage, page_size : KeyPageSizes, sort_by : KeySortBys,
     sort_order : KeySortOrders]

\* Two calls of get_articles are about to be made.
InitKey ==
    /\ db = [i \in Ids |-> None]
    /\ nextId = 1
    /\ store = [k \in {} |-> None]
    /\ redis = "none"
    /\ storeUp = TRUE
    /\ hits = 0
    /\ misses = 0
    /\ pc = [r \in Reqs |-> "idle"]
    /\ op = [r \in Reqs |-> "none"]
    /\ arg = [r \in Reqs |-> None]
    /\ loc = [r \in Reqs |-> None]
    /\ ret = [r \in Reqs |-> None]
    /\ status = [r \in Reqs |-> 0]
    /\ tx = [r \in Reqs |-> None]
    /\ qc = [r \in Reqs |-> 0]
    /\ wasHit = [r \in Reqs |-> FALSE]
    /\ cacheFault = [r \in Reqs |-> FALSE]
    /\ pre = [r \in Reqs |-> EmptyDict]
    /\ log = [r \in Reqs |-> <<>>]
    /\ purged = {}
    /\ viewMisses = [i \in Ids |-> 0]
    /\ \E a, b \in KeyArgs : call = [name |-> "get_articles", a |-> a, b |-> b]
    /\ prev = <<>>
    /\ stmts = [r \in Reqs |-> 0]
    /\ users = {}
    /\ slugOf = [i \in {} |-> <<>>]
    /\ publishedAt = [i \in {} |-> 0]
    /\ now = 0

\* Line 160 of each call: the f-string is evaluated.
Key_Build ==
    /\ call.name = "get_articles"
    /\ call' = [name |-> "cache_key", a |-> call.a, b |-> call.b,
                ka |-> ListKey(call.a.page, call.a.page_size, call.a.sort_by,
                               call.a.sort_order),
                kb |-> ListKey(call.b.page, call.b.page_size, call.b.sort_by,
                               call.b.sort_order)]
    /\ UNCHANGED <<cacheVars, appVars>>

NextKey == Key_Build

SpecKey == InitKey /\ [][NextKey]_vars

\* ================================================================ claims
Range(q) == {q[i] : i \in 1..Len(q)}

Before(q, a, b) ==
    \E i, j \in 1..Len(q) : i < j /\ q[i] = a /\ q[j] = b

\* Keys of the list namespace, told by their prefix.
IsListKey(k) == Len(k) >= 4 /\ SubSeq(k, 1, 4) = <<"articles", ":", "list", ":">>

ListKeys(st) == {k \in DOMAIN st : IsListKey(k)}

\* The cache key the read in flight in task r computed.
KeyOf(r) ==
    IF op[r] = "get_articles"
    THEN ListKey(arg[r].page, arg[r].page_size, arg[r].sort_by, arg[r].sort_order)
    ELSE DetailKey(arg[r].id)

WriteOps == {"create_article", "update_article", "delete_article", "add_comment"}
ReadOps  == {"get_articles", "get_article"}

\* The service function of task r has returned and its response is decided.
Returned(r) == pc[r] \in {"commit", "rollback"}

\* Task r ran with a client and none of its store calls raised.
CacheWorked(r) == redis = "client" /\ ~cacheFault[r]

C2_NoStaleDetailAfterWrite ==
    (\A r \in Reqs : op[r] \notin WriteOps)
    => \A id \in Ids :
         DetailKey(id) \in DOMAIN store
         => /\ db[id] # None
            /\ JsonLoads(store[DetailKey(id)].data).is_published = db[id].is_published
            /\ JsonLoads(store[DetailKey(id)].data).comments = db[id].comments

\* C3: a write operation that finds its target issues its invalidation in
\* its own task, after its flush and before it returns: no invalidation
\* precedes the flush and none is left for after the response.
C3_InvalidationAfterFlushBeforeResponse ==
    \A r \in Reqs :
        op[r] \in WriteOps
        => /\ \A a \in {"inval_list", "inval_detail"} :
                a \in Range(log[r]) => Before(log[r], "flush", a)
           /\ pc[r] \in {"inval_list", "inval_detail"} => "flush" \in Range(log[r])
           /\ pc[r] = "commit"
                => /\ "inval_list" \in Range(log[r])
                   /\ op[r] # "create_article" => "inval_detail" \in Range(log[r])

C3_Witness ==
    \E r \in Reqs :
        /\ pc[r] = "commit"
        /\ op[r] = "add_comment"
        /\ log[r] = <<"begin", "flush", "inval_list", "inval_detail">>

\* C4: after a successful create_article with a reachable cache no
\* articles:list:* key remains, whatever list keys were cached before.
C4_CreatePurgesAllListKeys ==
    \A r \in Reqs :
        (pc[r] = "commit" /\ op[r] = "create_article" /\ CacheWorked(r))
        => ListKeys(store) = {}

C4_Witness ==
    \E r \in Reqs :
        /\ pc[r] = "commit"
        /\ op[r] = "create_article"
        /\ CacheWorked(r)
        /\ Cardinality(ListKeys(pre[r])) >= 2

\* C5: after a successful update_article(id) or delete_article(id) with a
\* reachable cache neither a list key nor articles:detail:{id} remains.
C5_UpdateDeletePurgeListsAndDetail ==
    \A r \in Reqs :
        (pc[r] = "commit" /\ op[r] \in {"update_article", "delete_article"}
            /\ CacheWorked(r))
        => /\ ListKeys(store) = {}
           /\ DetailKey(arg[r].id) \notin DOMAIN store

C5_Witness ==
    \E r \in Reqs :
        /\ pc[r] = "commit"
        /\ op[r] = "update_article"
        /\ CacheWorked(r)
        /\ ListKeys(pre[r]) # {}
        /\ DetailKey(arg[r].id) \in DOMAIN pre[r]

\* C6 as stated: a successful add_comment leaves every list entry that was
\* cached before the call in place, with the same value.
C6_AddCommentKeepsListEntries ==
    \A r \in Reqs :
        (pc[r] = "commit" /\ op[r] = "add_comment")
        => \A k \in ListKeys(pre[r]) : k \in DOMAIN store /\ store[k] = pre[r][k]

\* C6 amended: a successful add_comment(article_id) with a reachable cache
\* removes articles:detail:{article_id} and every articles:list:* entry, and
\* leaves every other entry as it was.
C6_AddCommentPurgesDetailAndLists ==
    \A r \in Reqs :
        (pc[r] = "commit" /\ op[r] = "add_comment" /\ CacheWorked(r))
        => /\ ListKeys(store) = {}
           /\ DetailKey(arg[r].id) \notin DOMAIN store
           /\ DOMAIN store = DOMAIN pre[r] \ (ListKeys(pre[r]) \cup {DetailKey(arg[r].id)})
           /\ \A k \in DOMAIN store : store[k] = pre[r][k]

C6_Witness ==
    \E r \in Reqs :
        /\ pc[r] = "commit"
        /\ op[r] = "add_comment"
        /\ CacheWorked(r)
        /\ ListKeys(pre[r]) # {}
        /\ \E id \in Ids \ {arg[r].id} : DetailKey(id) \in DOMAIN store

\* C7: a read that finds a value under its key returns that value at once:
\* it executes no statement (query count 0), writes nothing to the cache
\* and holds no database write.
C7_HitReturnsWithoutDatabase ==
    \A r \in Reqs :
        wasHit[r]
        => /\ pc[r] = "commit"
           /\ status[r] = 200
           /\ ret[r] = JsonLoads(pre[r][KeyOf(r)].data)
           /\ qc[r] = 0
           /\ log[r] = <<"begin">>
           /\ tx[r] = None
           /\ store = pre[r]

C7_Witness ==
    \E r \in Reqs : wasHit[r] /\ op[r] = "get_articles" /\ ret[r].total > 0

\* C8: a read that misses, with a reachable cache, leaves on return exactly
\* its result under its key, with the list TTL for a list read and the
\* detail TTL for a detail read; the list TTL is the shorter of the two.
C8_MissPopulatesCache ==
    /\ CACHE_TTL_LIST < CACHE_TTL_DETAIL
    /\ \A r \in Reqs :
          (pc[r] = "commit" /\ op[r] \in ReadOps /\ ~wasHit[r] /\ CacheWorked(r))
          => /\ KeyOf(r) \in DOMAIN store
             /\ store[KeyOf(r)] =
                  [data |-> JsonDumps(ret[r]),
                   ex |-> IF op[r] = "get_articles" THEN CACHE_TTL_LIST
                                                   ELSE CACHE_TTL_DETAIL]

C8_Witness ==
    \E r \in Reqs :
        /\ pc[r] = "commit"
        /\ op[r] = "get_article"
        /\ ~wasHit[r]
        /\ CacheWorked(r)
        /\ ListKeys(store) # {}

\* C9: with the cache disabled every get_article of an existing article
\* raises the stored view_count by exactly 1 and returns the raised value,
\* which is 1 for the first fetch after creation and one more for each
\* further fetch.
C9_DisabledCacheCountsEveryView ==
    [][\A r \in Reqs :
         (pc[r] = "commit" /\ op[r] = "get_article" /\ redis = "none"
             /\ pc'[r] = "idle")
         => /\ db'[arg[r].id] # None
            /\ db'[arg[r].id].view_count = db[arg[r].id].view_count + 1
            /\ ret[r].view_count = db'[arg[r].id].view_count
            /\ ret[r].view_count = viewMisses[arg[r].id] + 1]_vars

\* The second fetch of an article, cache disabled.
C9_Witness ==
    \E r \in Reqs :
        /\ pc[r] = "commit"
        /\ op[r] = "get_article"
        /\ redis = "none"
        /\ ret[r].view_count = 2

ItemIds(resp) == {resp.items[i].id : i \in 1..Len(resp.items)}

\* The request answered last, and the one before it.
Last(q) == q[Len(q)]

\* C11 as stated: of two consecutive get_article calls on the same article,
\* the second returns the view_count of the first plus 1, cache hit or not.
C11_EveryAccessCountsAView ==
    \A r \in Reqs :
        (/\ pc[r] = "commit"
         /\ op[r] = "get_article"
         /\ prev # <<>>
         /\ Last(prev).op = "get_article"
         /\ Last(prev).status = 200
         /\ Last(prev).arg.id = arg[r].id)
        => ret[r].view_count = Last(prev).ret.view_count + 1

\* The case of C12: a list read answered with total t, then a published
\* article created, then the list read of task r with the same parameters.
ListCreateList(r) ==
    /\ pc[r] = "commit"
    /\ op[r] = "get_articles"
    /\ Len(prev) = 2
    /\ prev[1].op = "get_articles"
    /\ prev[1].status = 200
    /\ prev[1].arg = arg[r]
    /\ prev[2].op = "create_article"
    /\ prev[2].status = 201
    /\ prev[2].ret.is_published

C13_EmptyPageIsCached ==
    [][\A r \in Reqs :
         /\ (pc[r] = "commit" /\ op[r] = "get_articles" /\ ~wasHit[r]
                /\ CacheWorked(r) /\ ret[r].items = <<>>)
            => /\ KeyOf(r) \in DOMAIN store
               /\ JsonLoads(store[KeyOf(r)].data) = ret[r]
         /\ (/\ pc[r] = "idle"
             /\ pc'[r] # "idle"
             /\ op'[r] = "get_articles"
             /\ StoreCallWorks
             /\ ListKey(arg'[r].page, arg'[r].page_size, arg'[r].sort_by,
                        arg'[r].sort_order) \in DOMAIN store
             /\ JsonLoads(store[ListKey(arg'[r].page, arg'[r].page_size,
                     arg'[r].sort_by, arg'[r].sort_order)].data).items = <<>>)
            => /\ wasHit'[r]
               /\ pc'[r] = "commit"
               /\ status'[r] = 200
               /\ ret'[r].items = <<>>
               /\ qc'[r] = 0
               /\ store' = store]_vars

\* The second of two reads of an empty page, served from the cache.
C13_Witness ==
    \E r \in Reqs :
        /\ wasHit[r]
        /\ op[r] = "get_articles"
        /\ ret[r].items = <<>>
        /\ ret[r].total = 0
        /\ qc[r] = 0

\* ------------------------------------------------------------ C14 .. C20
\* The store is contacted and answers.
Reachable == redis = "client" /\ storeUp

\* Keys a pattern of CachePatterns stands for: the list namespace for the
\* list pattern, the key itself for a pattern without a star.
Covers(pattern, k) ==
    IF pattern = <<"articles", ":", "list", ":", "*">> THEN IsListKey(k)
    ELSE pattern = k

\* C14: cache.get never raises; it returns the stored payload, decoded, on
\* a hit, and None when the key is absent, _redis is None, the store call
\* fails or the payload cannot be decoded.  The store is left as it was.
C14_GetNeverRaises ==
    [][call'.name = "get"
       => /\ ~call'.raised
          /\ store' = store
          /\ call'.result =
                IF /\ Reachable
                   /\ call'.key \in DOMAIN store
                   /\ store[call'.key].data # Garbage
                THEN store[call'.key].data.json
                ELSE None]_vars

\* A get of a key that holds undecodable text, with the store answering.
C14_Witness ==
    /\ call.name = "get"
    /\ Reachable
    /\ call.key \in DOMAIN store
    /\ store[call.key].data = Garbage
    /\ call.result = None

\* C15 as stated: every cache.get adds 1 to exactly one of hits and misses,
\* to hits when it returns a value and to misses when it returns None.
C15_GetCountsExactlyOnce ==
    [][call'.name = "get"
       => /\ hits' + misses' = hits + misses + 1
          /\ hits' = hits + 1 <=> call'.result # None]_vars

\* C16: cache.set never raises; with _redis None, a value json.dumps raises
\* on, or a failing store call, the store is unchanged; otherwise the entry
\* of the key is the serialised value with the ttl and every other entry
\* is as it was.
C16_SetNeverRaises ==
    [][call'.name = "set"
       => /\ ~call'.raised
          /\ IF Reachable /\ call'.value # Circular
             THEN /\ DOMAIN store' = DOMAIN store \cup {call'.key}
                  /\ store'[call'.key] =
                        [data |-> [json |-> call'.value], ex |-> call'.ttl]
                  /\ \A k \in DOMAIN store \ {call'.key} : store'[k] = store[k]
             ELSE store' = store]_vars

\* A set of an unserialisable value on a store that answers and holds
\* another value under the key.
C16_Witness ==
    /\ call.name = "set"
    /\ call.value = Circular
    /\ Reachable
    /\ call.key \in DOMAIN store
    /\ store[call.key].data # Garbage

\* C17 as stated, for the call that follows the connect: after a connect
\* whose ping failed, get returns None, the store is unchanged and the call
\* does not contact the store.
C17_FailedPingDisables ==
    [][(/\ call.name = "connect"
        /\ call.ping = "failed"
        /\ call'.name \in {"get", "set", "delete_pattern"})
       => /\ ~call'.contacted
          /\ store' = store
          /\ call'.name = "get" => call'.result = None]_vars

\* C18 as stated: with a client set, delete_pattern leaves no key the
\* pattern covers and keeps every other key.
C18_DeletePatternRemovesMatches ==
    [][(call'.name = "delete_pattern" /\ redis = "client")
       => /\ ~call'.raised
          /\ DOMAIN store' = {k \in DOMAIN store : ~Covers(call'.pattern, k)}
          /\ \A k \in DOMAIN store' : store'[k] = store[k]]_vars

\* C18 amended: delete_pattern never raises; when the store is contacted
\* and answers it removes exactly the keys the pattern covers, and it
\* changes nothing when _redis is None, no key matches or the store call
\* fails.
C18_DeletePatternWhenReachable ==
    [][call'.name = "delete_pattern"
       => /\ ~call'.raised
          /\ IF Reachable
             THEN /\ DOMAIN store' =
                       {k \in DOMAIN store : ~Covers(call'.pattern, k)}
                  /\ \A k \in DOMAIN store' : store'[k] = store[k]
             ELSE store' = store
          /\ (\A k \in DOMAIN store : ~Covers(call'.pattern, k))
                => store' = store]_vars

\* The list pattern took the list pages and left the detail entry.
C18_Witness ==
    /\ call.name = "delete_pattern"
    /\ call.pattern = ListPattern
    /\ Reachable
    /\ DOMAIN store = {DetailKey(1)}
    /\ hits = 2

\* C19: disconnect never raises and leaves _redis None, the store and the
\* counters as they were; a disconnect after a disconnect, or with no
\* connect before it, changes nothing.
C19_DisconnectIdempotent ==
    [][call'.name = "disconnect"
       => /\ ~call'.raised
          /\ redis' = "none"
          /\ <<store, storeUp, hits, misses>>' = <<store, storeUp, hits, misses>>
          /\ redis = "none" => ~call'.closed
          /\ call.name \in {"disconnect", "none"} /\ redis = "none"
                => redis' = redis]_vars

\* The second of two disconnects in a row, after a connect.
C19_Witness ==
    /\ call.name = "disconnect"
    /\ call.after = "disconnect"
    /\ ~call.closed
    /\ redis = "none"
    /\ DOMAIN store # {}

\* C20: stats returns the two counters as they are and leaves them so;
\* hit_rate, in tenths of a percent, is 0 without any get and else the
\* tenth nearest to 100 * hits / (hits + misses), the even one on a tie.
C20_StatsHitRate ==
    [][call'.name = "stats"
       => LET t == hits + misses
              x == call'.result.hit_rate
              e == x * t - 1000 * hits
          IN  /\ hits' = hits
              /\ misses' = misses
              /\ call'.result.hits = hits
              /\ call'.result.misses = misses
              /\ IF t = 0 THEN x = 0
                 ELSE /\ 2 * e <= t
                      /\ -2 * e <= t
                      /\ (2 * e = t \/ -2 * e = t) => x % 2 = 0]_vars

\* Two hits and a miss: 66.7.
C20_Witness ==
    /\ call.name = "stats"
    /\ call.result.hits = 2
    /\ call.result.misses = 1
    /\ call.result.hit_rate = 667

C22_ListMissReportsThree ==
    \A r \in Reqs :
        (pc[r] = "commit" /\ op[r] = "get_articles" /\ ~wasHit[r]) => qc[r] = 3

\* C23 as stated: a detail read of an existing article that missed the
\* cache reports a query count of exactly 5.
C23_DetailMissReportsFive ==
    \A r \in Reqs :
        (pc[r] = "commit" /\ op[r] = "get_article" /\ ~wasHit[r]) => qc[r] = 5

\* C24 as stated: while another request is in flight, the count a request
\* reports is the number of statements the request itself executed.
C24_ConcurrentCountsAreOwnStatements ==
    \A r \in Reqs :
        (Returned(r) /\ \E s \in Reqs \ {r} : pc[s] # "idle")
        => qc[r] = stmts[r]

\* C25 as stated: the counter starts at 0 with every request and the count
\* on the response is the number of statements executed while handling the
\* request, whatever the requests before it executed.
C25_ReportedCountIsStatementsExecuted ==
    \A r \in Reqs : Returned(r) => qc[r] = stmts[r]

\* C26 as stated: every response carries both diagnostic headers, error
\* responses included.
C26_EveryResponseHasBothHeaders ==
    \A r \in Reqs : Returned(r) => DiagnosticHeaders \subseteq ResponseHeaders(r)

\* C27: a request's session ends by commit when the handler raised nothing
\* and the commit went through, and by rollback when the handler or the
\* commit raised; the committed rows are then the session's write applied,
\* or the rows as they were, never a part of the write; the session holds
\* nothing once the request has ended.
C27_CommitXorRollback ==
    [][\A r \in Reqs :
         (pc[r] # "idle" /\ pc'[r] = "idle")
         => /\ tx'[r] = None
            /\ IF status[r] < 400 /\ "commit" \notin Range(log[r])
               THEN pc[r] = "commit" /\ db' = ApplyTx(tx[r])
               ELSE pc[r] = "rollback" /\ db' = db]_vars

\* A session whose commit raised over a flushed write is about to roll back.
C27_Witness ==
    \E r \in Reqs :
        /\ pc[r] = "rollback"
        /\ "commit" \in Range(log[r])
        /\ tx[r] # None
        /\ op[r] = "update_article"

\* The four functions that take the id of an article.
ByIdOps == {"get_article", "update_article", "delete_article", "add_comment"}

\* C28 as stated: called with the id of no existing article, each of the
\* four functions returns the absent outcome (404), holds no write and
\* leaves the cache contents as they were.
C28_AbsentIdChangesNothing ==
    \A r \in Reqs :
        (Returned(r) /\ op[r] \in ByIdOps /\ db[arg[r].id] = None)
        => /\ status[r] = 404
           /\ ret[r] = IF op[r] = "delete_article" THEN FALSE ELSE None
           /\ tx[r] = None
           /\ store = pre[r]

\* C29: creating a user whose username or email a stored user has yields
\* 409 and leaves the stored users as they were.
C29_DuplicateUserIsConflict ==
    [][(/\ call'.name = "create_user"
        /\ \E u \in users : \/ u.username = call'.data.username
                             \/ u.email = call'.data.email)
       => call'.status = 409 /\ users' = users]_vars

\* A create refused for the email alone, with two users stored.
C29_Witness ==
    /\ call.name = "create_user"
    /\ call.status = 409
    /\ Cardinality(users) = 2
    /\ \A u \in users : u.username # call.data.username
    /\ \E u \in users : u.email = call.data.email

\* C30 as stated: an update of the title to one whose slug another article
\* holds succeeds with a slug different from that article's, or yields 409.
C30_SlugCollisionOnUpdateHandled ==
    [][(/\ call'.name = "update_article"
        /\ call'.id \in DOMAIN slugOf
        /\ \E j \in DOMAIN slugOf \ {call'.id} : slugOf[j] = Slugify(call'.title))
       => \/ call'.status = 409
          \/ /\ call'.status = 200
             /\ \A j \in DOMAIN slugOf \ {call'.id} :
                    slugOf'[call'.id] # slugOf'[j]]_vars

\* ------------------------------------------------------------- claims
\* C31 .. C39

\* C31 as stated: every create_article call succeeds and the stored
\* articles have pairwise distinct slugs after it, also when several calls
\* with the same title are made within one second.
C31_EveryCreateSucceedsWithDistinctSlugs ==
    [][call'.name = "create_article"
       => /\ call'.status = 201
          /\ \A i, j \in DOMAIN slugOf' :
                 i # j => slugOf'[i] # slugOf'[j]]_vars

\* The response and the flushed write of a returned request are those the
\* service function computes from the committed rows alone, as it does
\* with _redis None (one request at a time).
SameAsCacheDisabled(r) ==
    IF op[r] = "get_articles"
    THEN /\ status[r] = 200
         /\ tx[r] = None
         /\ ret[r] = PaginatedResponse(PageRows(arg[r]),
                                       Cardinality(PublishedIds), arg[r])
    ELSE IF op[r] = "create_article"
    THEN /\ status[r] = 201
         /\ tx[r] # None
         /\ tx[r] = [kind |-> "insert", id |-> nextId - 1, row |-> NewRow(arg[r])]
         /\ ret[r] = [id |-> nextId - 1, view_count |-> 0,
                      is_published |-> arg[r].is_published, comments |-> 0]
    ELSE IF db[arg[r].id] = None
    THEN /\ status[r] = 404
         /\ tx[r] = None
         /\ ret[r] = IF op[r] = "delete_article" THEN FALSE ELSE None
    ELSE LET id  == arg[r].id
             row == LoadArticle(id)
         IN  IF op[r] = "get_article"
             THEN /\ status[r] = 200
                  /\ tx[r] = [kind |-> "update", id |-> id,
                              set |-> [view_count |-> row.view_count + 1]]
                  /\ ret[r] = ArticleDetailToDict(
                                  [row EXCEPT !.view_count = @ + 1])
             ELSE IF op[r] = "update_article"
             THEN /\ status[r] = 200
                  /\ ApplyTx(tx[r]) =
                        [db EXCEPT ![id] =
                            [f \in DOMAIN @ |->
                                IF f \in DOMAIN arg[r].data
                                THEN arg[r].data[f] ELSE @[f]]]
                  /\ ret[r] = ArticleDetailToDict(
                                  [f \in DOMAIN row |->
                                      IF f \in DOMAIN arg[r].data
                                      THEN arg[r].data[f] ELSE row[f]])
             ELSE IF op[r] = "delete_article"
             THEN /\ status[r] = 204
                  /\ tx[r] = [kind |-> "delete", id |-> id]
                  /\ ret[r] = TRUE
             ELSE /\ status[r] = 201
                  /\ tx[r] = [kind |-> "comment", id |-> id]
                  /\ ret[r] = [article_id |-> id]

\* C32: a request during which a store call of the cache raised (in get,
\* set or delete_pattern) returns the response and holds the write it has
\* with the cache disabled; so does a request made with the cache disabled.
C32_CacheFailureNeverSurfaces ==
    \A r \in Reqs :
        (Returned(r) /\ (cacheFault[r] \/ redis = "none"))
        => SameAsCacheDisabled(r)

\* An update whose purge of the list keys raised and whose purge of the
\* detail key went through, with the detail cached when it came in.
C32_Witness ==
    \E r \in Reqs :
        /\ Returned(r)
        /\ op[r] = "update_article"
        /\ cacheFault[r]
        /\ StoreCallWorks
        /\ DetailKey(arg[r].id) \in DOMAIN pre[r]
        /\ DetailKey(arg[r].id) \notin DOMAIN store

\* C33: a list read computed from the database with T published articles,
\* page p and page_size s returns total = T, pages = ceil(T / s) (0 when
\* T = 0), min(s, max(0, T - (p - 1) * s)) items, and published items only.
C33_ListPageArithmetic ==
    call.name = "get_articles"
    => LET T    == Cardinality({i \in Ids : db[i] # None /\ db[i].is_published})
           p    == call.args.page
           s    == call.args.page_size
           left == T - (p - 1) * s
           n    == IF left < 0 THEN 0 ELSE IF left < s THEN left ELSE s
           resp == call.resp
       IN  /\ resp.total = T
           /\ IF T = 0 THEN resp.pages = 0
              ELSE resp.pages * s >= T /\ (resp.pages - 1) * s < T
           /\ Len(resp.items) = n
           /\ \A i \in 1..Len(resp.items) :
                  /\ resp.items[i].is_published
                  /\ db[resp.items[i].id] # None
                  /\ db[resp.items[i].id].is_published

\* The page after the last one is empty: page 2 by pages of one with one
\* published and one unpublished article stored.
C33_Witness ==
    /\ call.name = "get_articles"
    /\ call.args.page = 2
    /\ call.args.page_size = 1
    /\ call.resp.total = 1
    /\ call.resp.pages = 1
    /\ call.resp.items = <<>>
    /\ \E i \in Ids : db[i] # None /\ ~db[i].is_published

\* C34 as stated: with the cache enabled, one request at a time and no
\* entry expiring, every get_articles result equals, in every field of
\* every item, what the call computes from the database at that moment.
C34_ListReadEqualsDatabase ==
    \A r \in Reqs :
        (pc[r] = "commit" /\ op[r] = "get_articles")
        => ret[r] = PaginatedResponse(PageRows(arg[r]),
                                      Cardinality(PublishedIds), arg[r])

\* C35 as stated: once the get_article requests on an article that missed
\* the cache have all committed, the stored view_count has increased by
\* their number (it was 0 when the first of them came in).
C35_NoViewIncrementLost ==
    (AllIdle /\ db[1] # None) => db[1].view_count = viewMisses[1]

\* The methods of the CacheManager other than get.
NonGetCalls ==
    {"connect", "disconnect", "set", "delete_pattern", "invalidate_article",
     "stats"}

\* C36: no step lowers hits or misses, and connect, disconnect, set,
\* delete_pattern, invalidate_article and stats leave both as they were,
\* so that a disconnect followed by a connect keeps their values.
C36_CountersNeverReset ==
    [][/\ hits' >= hits
       /\ misses' >= misses
       /\ call'.name \in NonGetCalls => (hits' = hits /\ misses' = misses)]_vars

\* A disconnect that closed the client a connect had set, with both
\* counters above 0.
C36_Witness ==
    /\ call.name = "disconnect"
    /\ call.closed
    /\ call.after = "connect"
    /\ hits > 0
    /\ misses > 0

\* The keys invalidate_article(ids) is to remove.
InvalTargets(st, ids) ==
    {k \in DOMAIN st : IsListKey(k) \/ (ids # <<>> /\ k = DetailKey(ids[1]))}

\* C37: invalidate_article(id) called right after invalidate_article(id)
\* leaves the store as the first call left it, and a call on a store that
\* holds no matching key leaves it as it was.
C37_InvalidateIdempotent ==
    [][call'.name = "invalidate_article"
       => /\ (call.name = "invalidate_article" /\ call.ids = call'.ids)
               => store' = store
          /\ InvalTargets(store, call'.ids) = {} => store' = store]_vars

\* invalidate_article(1) on an answering store that holds no matching key,
\* only the detail of another article: the call removed nothing.
C37_Witness ==
    /\ call.name = "invalidate_article"
    /\ call.ids = <<1>>
    /\ call.removed = {}
    /\ StoreCallWorks
    /\ DOMAIN store = {DetailKey(10)}

\* C38: invalidate_article(id), the one cache call of update_article,
\* delete_article and add_comment, leaves the detail entry of every other
\* id in the store with its value, also when id is a decimal prefix of it.
C38_OtherDetailEntriesKept ==
    [][(call'.name = "invalidate_article" /\ call'.ids # <<>>)
       => \A id2 \in InvalIds \ {call'.ids[1]} :
             DetailKey(id2) \in DOMAIN store
             => /\ DetailKey(id2) \in DOMAIN store'
                /\ store'[DetailKey(id2)] = store[DetailKey(id2)]]_vars

\* invalidate_article(1) has removed the list page and the detail of
\* article 1 and has left the detail of article 10.
C38_Witness ==
    /\ call.name = "invalidate_article"
    /\ call.ids = <<1>>
    /\ StoreCallWorks
    /\ DetailKey(1) \in call.removed
    /\ \E k \in call.removed : IsListKey(k)
    /\ DOMAIN store = {DetailKey(10)}

\* C39: after every create_article and update_article, a published article
\* has published_at set; an article created unpublished has none, and gets
\* one only by an update of it that publishes; no update changes a
\* published_at that is set.
C39_PublishedAtSetOnce ==
    [][/\ \A i \in Ids :
            (db'[i] # None /\ db'[i].is_published) => i \in DOMAIN publishedAt'
       /\ (call'.name = "create_article" /\ ~call'.data.is_published)
            => call'.id \notin DOMAIN publishedAt'
       /\ \A i \in DOMAIN publishedAt' \ DOMAIN publishedAt :
            /\ call'.name \in {"create_article", "update_article"}
            /\ call'.id = i
            /\ call'.data.is_published
       /\ call'.name = "update_article"
            => \A i \in DOMAIN publishedAt :
                  i \in DOMAIN publishedAt' /\ publishedAt'[i] = publishedAt[i]]_vars

\* An update that publishes an article again a second after it was first
\* published: published_at is still the first time.
C39_Witness ==
    /\ call.name = "update_article"
    /\ call.data.is_published
    /\ call.id \in DOMAIN publishedAt
    /\ publishedAt[call.id] < now
    /\ db[call.id] # None
    /\ db[call.id].is_published

====
